---- MODULE Spec2Model ----
(***************************************************************************)
(* Model of internal/utils/encrypt.py: a script that reads 32 bytes from   *)
(* the operating system's entropy source (os.urandom), base64-encodes      *)
(* them (base64.b64encode) and prints the key length and the encoded key.  *)
(*                                                                         *)
(* Bytes are integers 0..255, a bytes object is a sequence of bytes, a str *)
(* is a sequence of one-character strings.                                 *)
(***************************************************************************)
EXTENDS Integers, Sequences, FiniteSets, TLC

VARIABLES pc, raw_key, encoded_key, stdout, exc, entropy_reads,
          size, key, text

vars == <<pc, raw_key, encoded_key, stdout, exc, entropy_reads, size, key, text>>

progVars == <<pc, raw_key, encoded_key, stdout, exc, entropy_reads>>

fnVars == <<size, key, text>>

-----------------------------------------------------------------------------
(* Program constant and model bounds *)

\* os.urandom(32): the number of bytes the script asks for
KeySize == 32

\* number of executions of the script that run side by side
NumRuns == 2

\* largest size for which every byte sequence over SampleBytes is a possible read
MaxSize == 3

\* most negative size tried is -MaxNeg
MaxNeg == 2

\* reads longer than MaxSize repeat a pattern of SeedLen bytes over SeedBytes
SeedLen == 2

Runs == 1..NumRuns

Sizes == ((0 - MaxNeg)..MaxSize) \cup {KeySize}

SampleBytes == {0, 1, 127, 128, 251, 255}

SeedBytes == {77, 251}

\* a name that has not been assigned yet
Unbound == <<>>

-----------------------------------------------------------------------------
(* Library calls the script makes *)

Return(v) == [tag |-> "ok", val |-> v]

Raise(e) == [tag |-> e, val |-> <<>>]

Pending == [tag |-> "pending", val |-> <<>>]

\* the byte strings a read of n bytes from the OS entropy source can deliver
EntropyReads(n) ==
    IF n <= MaxSize
    THEN [1..n -> SampleBytes]
    ELSE {[i \in 1..n |-> s[((i - 1) % SeedLen) + 1]] : s \in [1..SeedLen -> SeedBytes]}

\* urandom without the check of the sign: a negative size reads nothing
urandom_unchecked(n) ==
    IF n <= 0 THEN {Return(<<>>)}
    ELSE {Return(k) : k \in EntropyReads(n)} \cup {Raise("OSError")}

\* urandom that accepts a read one byte short of the request
urandom_short(n) ==
    IF n < 0 THEN {Raise("ValueError")}
    ELSE IF n = 0 THEN {Return(<<>>)}
    ELSE {Return(k) : k \in EntropyReads(n) \cup EntropyReads(n - 1)} \cup {Raise("OSError")}

\* os.urandom(n): ValueError for a negative n, b'' for 0 without touching the
\* source, otherwise n bytes from the OS source or OSError when it cannot be read
urandom(n) ==
    IF n < 0 THEN {Raise("ValueError")}
    ELSE IF n = 0 THEN {Return(<<>>)}
    ELSE {Return(k) : k \in EntropyReads(n)} \cup {Raise("OSError")}

\* the URL-safe alphabet: '-' and '_' in place of '+' and '/'
B64Code_urlsafe(i) ==
    IF i < 26 THEN 65 + i
    ELSE IF i < 52 THEN 97 + (i - 26)
    ELSE IF i < 62 THEN 48 + (i - 52)
    ELSE IF i = 62 THEN 45
    ELSE 95

\* the ASCII code of the i-th character (0..63) of the standard base64 alphabet
B64Code(i) ==
    IF i < 26 THEN 65 + i
    ELSE IF i < 52 THEN 97 + (i - 26)
    ELSE IF i < 62 THEN 48 + (i - 52)
    ELSE IF i = 62 THEN 43
    ELSE 47

\* ASCII code of '='
PadCode == 61

\* byte i of s, or 0 past the end (the zero bits a short last group is filled with)
ByteAt(s, i) == IF i <= Len(s) THEN s[i] ELSE 0

\* the 24-bit value of the g-th 3-byte group (g = 0, 1, ...)
Group24(s, g) ==
    ByteAt(s, 3 * g + 1) * 65536 + ByteAt(s, 3 * g + 2) * 256 + ByteAt(s, 3 * g + 3)

\* the third digit taken with an 8-bit shift instead of a 6-bit one
Sextet_shift8(v, k) ==
    IF k = 0 THEN v \div 262144
    ELSE IF k = 1 THEN (v \div 4096) % 64
    ELSE IF k = 2 THEN (v \div 256) % 64
    ELSE v % 64

\* the k-th 6-bit digit (k = 0..3, most significant first) of a 24-bit value
Sextet(v, k) ==
    IF k = 0 THEN v \div 262144
    ELSE IF k = 1 THEN (v \div 4096) % 64
    ELSE IF k = 2 THEN (v \div 64) % 64
    ELSE v % 64

\* b64encode that leaves the '=' padding out
b64encode_nopad(s) ==
    LET n == Len(s)
        groups == (n + 2) \div 3
        full == [j \in 1..(4 * groups) |->
                    B64Code(Sextet(Group24(s, (j - 1) \div 4), (j - 1) % 4))]
    IN  SubSeq(full, 1, 4 * groups - ((3 - (n % 3)) % 3))

\* base64.b64encode(s): bytes -> bytes, 4 output bytes per 3 input bytes, the
\* last group padded with '='
b64encode(s) ==
    LET n == Len(s)
        groups == (n + 2) \div 3
    IN  [j \in 1..(4 * groups) |->
            LET g == (j - 1) \div 4
                k == (j - 1) % 4
            IN  IF 3 * g + k > n
                THEN PadCode
                ELSE B64Code(Sextet(Group24(s, g), k))]

\* the characters with codes 32..126 (code 96 is written by its name)
Printable ==
    << " ", "!", "\"", "#", "$", "%", "&", "'", "(", ")", "*", "+", ",", "-", ".",
       "/", "0", "1", "2", "3", "4", "5", "6", "7", "8", "9", ":", ";", "<", "=",
       ">", "?", "@", "A", "B", "C", "D", "E", "F", "G", "H", "I", "J", "K", "L",
       "M", "N", "O", "P", "Q", "R", "S", "T", "U", "V", "W", "X", "Y", "Z", "[",
       "\\", "]", "^", "_", "grave", "a", "b", "c", "d", "e", "f", "g", "h", "i", "j",
       "k", "l", "m", "n", "o", "p", "q", "r", "s", "t", "u", "v", "w", "x", "y",
       "z", "{", "|", "}", "~" >>

\* the character with code c; codes outside 32..126 are shown as one marker
Chr(c) == IF c >= 32 /\ c <= 126 THEN Printable[c - 31] ELSE "<nonprintable>"

\* bytes.decode(): the str of the characters the bytes encode
decode(bs) == [i \in 1..Len(bs) |-> Chr(bs[i])]

\* print("Raw key length:", len(raw_key), "bytes")
LengthLine(k) == <<"Raw key length:", Len(k), "bytes">>

\* print("Base64 encoded key:", encoded_key.decode())
KeyLine(e) == <<"Base64 encoded key:", decode(e)>>

-----------------------------------------------------------------------------
(* The script, one step per statement; each run r is one execution *)

\* no call of the two operations below is in progress
FnIdle == size = KeySize /\ key = Pending /\ text = Pending

\* every run is about to execute its first statement
ProgInit ==
    /\ pc = [r \in Runs |-> "urandom"]
    /\ raw_key = [r \in Runs |-> Unbound]
    /\ encoded_key = [r \in Runs |-> Unbound]
    /\ stdout = [r \in Runs |-> <<>>]
    /\ exc = [r \in Runs |-> "none"]
    /\ entropy_reads = [r \in Runs |-> <<>>]

Init == ProgInit /\ FnIdle

\* a read that notes the error of the OS source and goes on with a fixed key
Urandom_fallback(r) ==
    /\ pc[r] = "urandom"
    /\ \E out \in urandom(KeySize) :
          /\ raw_key' = [raw_key EXCEPT ![r] =
                            IF out.tag = "ok" THEN out.val ELSE [i \in 1..KeySize |-> 0]]
          /\ entropy_reads' = [entropy_reads EXCEPT ![r] =
                            IF out.tag = "ok" THEN Append(@, out.val) ELSE @]
          /\ exc' = [exc EXCEPT ![r] = IF out.tag = "ok" THEN @ ELSE out.tag]
    /\ pc' = [pc EXCEPT ![r] = "b64encode"]
    /\ UNCHANGED <<encoded_key, stdout, fnVars>>

\* a key taken from a general-purpose generator: nothing is read from the OS source
Urandom_prng(r) ==
    /\ pc[r] = "urandom"
    /\ \E k \in EntropyReads(KeySize) : raw_key' = [raw_key EXCEPT ![r] = k]
    /\ pc' = [pc EXCEPT ![r] = "b64encode"]
    /\ UNCHANGED <<exc, entropy_reads, encoded_key, stdout, fnVars>>

\* the key kept in one place that all runs share
Urandom_shared(r) ==
    /\ pc[r] = "urandom"
    /\ \E k \in EntropyReads(KeySize) :
          /\ raw_key' = [q \in Runs |-> k]
          /\ entropy_reads' = [entropy_reads EXCEPT ![r] = Append(@, k)]
    /\ pc' = [pc EXCEPT ![r] = "b64encode"]
    /\ UNCHANGED <<exc, encoded_key, stdout, fnVars>>

\* raw_key = os.urandom(32); an exception is not caught and ends the run
Urandom(r) ==
    /\ pc[r] = "urandom"
    /\ \E out \in urandom(KeySize) :
          IF out.tag = "ok"
          THEN /\ raw_key' = [raw_key EXCEPT ![r] = out.val]
               /\ entropy_reads' = [entropy_reads EXCEPT ![r] = Append(@, out.val)]
               /\ pc' = [pc EXCEPT ![r] = "b64encode"]
               /\ exc' = exc
          ELSE /\ pc' = [pc EXCEPT ![r] = "raised"]
               /\ exc' = [exc EXCEPT ![r] = out.tag]
               /\ UNCHANGED <<raw_key, entropy_reads>>
    /\ UNCHANGED <<encoded_key, stdout, fnVars>>

\* encoded_key = base64.b64encode(raw_key)
B64encode(r) ==
    /\ pc[r] = "b64encode"
    /\ encoded_key' = [encoded_key EXCEPT ![r] = b64encode(raw_key[r])]
    /\ pc' = [pc EXCEPT ![r] = "print_length"]
    /\ UNCHANGED <<raw_key, stdout, exc, entropy_reads, fnVars>>

\* the length line computed from the encoded key instead of the raw key
PrintLength_encoded(r) ==
    /\ pc[r] = "print_length"
    /\ stdout' = [stdout EXCEPT ![r] = Append(@, LengthLine(encoded_key[r]))]
    /\ pc' = [pc EXCEPT ![r] = "print_key"]
    /\ UNCHANGED <<raw_key, encoded_key, exc, entropy_reads, fnVars>>

\* print("Raw key length:", len(raw_key), "bytes")
PrintLength(r) ==
    /\ pc[r] = "print_length"
    /\ stdout' = [stdout EXCEPT ![r] = Append(@, LengthLine(raw_key[r]))]
    /\ pc' = [pc EXCEPT ![r] = "print_key"]
    /\ UNCHANGED <<raw_key, encoded_key, exc, entropy_reads, fnVars>>

\* print("Base64 encoded key:", encoded_key.decode())
PrintKey(r) ==
    /\ pc[r] = "print_key"
    /\ stdout' = [stdout EXCEPT ![r] = Append(@, KeyLine(encoded_key[r]))]
    /\ pc' = [pc EXCEPT ![r] = "exit"]
    /\ UNCHANGED <<raw_key, encoded_key, exc, entropy_reads, fnVars>>

Next ==
    \E r \in Runs :
        \/ Urandom(r)
        \/ B64encode(r)
        \/ PrintLength(r)
        \/ PrintKey(r)

Spec == Init /\ [][Next]_vars

-----------------------------------------------------------------------------
(* The script's two steps as operations on an arbitrary size: the key       *)
(* generation of line 5 with the literal 32 as the argument `size`, and the *)
(* rendering of lines 8 and 11 (b64encode, then decode to text).            *)

InitFn ==
    /\ ProgInit
    /\ size \in Sizes
    /\ key = Pending
    /\ text = Pending

\* generate_key(size): os.urandom(size)
GenerateKey ==
    /\ key = Pending
    /\ key' \in urandom(size)
    /\ UNCHANGED <<size, text, progVars>>

\* encode_for_storage(key): base64.b64encode(key).decode()
EncodeForStorage ==
    /\ key.tag = "ok"
    /\ text = Pending
    /\ text' = Return(decode(b64encode(key.val)))
    /\ UNCHANGED <<size, key, progVars>>

NextFn == GenerateKey \/ EncodeForStorage

SpecFn == InitFn /\ [][NextFn]_vars

-----------------------------------------------------------------------------
(* Standard base64 decoding, used to state the round trip *)

\* the standard alphabet (RFC 4648, table 1), written out
B64Alphabet ==
    << "A", "B", "C", "D", "E", "F", "G", "H", "I", "J", "K", "L", "M", "N", "O", "P",
       "Q", "R", "S", "T", "U", "V", "W", "X", "Y", "Z", "a", "b", "c", "d", "e", "f",
       "g", "h", "i", "j", "k", "l", "m", "n", "o", "p", "q", "r", "s", "t", "u", "v",
       "w", "x", "y", "z", "0", "1", "2", "3", "4", "5", "6", "7", "8", "9", "+", "/" >>

B64Chars == {B64Alphabet[i] : i \in 1..64}

PadChar == "="

\* the number of '=' characters at the end of a text
TrailingPads(txt) ==
    Cardinality({i \in 1..Len(txt) : \A j \in i..Len(txt) : txt[j] = PadChar})

\* the value 0..63 of a character of the alphabet; padding counts as 0
B64Index(ch) ==
    IF ch = PadChar THEN 0 ELSE CHOOSE i \in 0..63 : B64Alphabet[i + 1] = ch

\* strict decoding: whole groups of 4, alphabet characters, at most 2 trailing '='
b64decode(txt) ==
    LET len == Len(txt)
        pads == TrailingPads(txt)
        n == 3 * (len \div 4) - pads
        quad(g) == B64Index(txt[4 * g + 1]) * 262144 + B64Index(txt[4 * g + 2]) * 4096
                   + B64Index(txt[4 * g + 3]) * 64 + B64Index(txt[4 * g + 4])
        byte(i) == LET v == quad((i - 1) \div 3)
                       m == (i - 1) % 3
                   IN  IF m = 0 THEN v \div 65536
                       ELSE IF m = 1 THEN (v \div 256) % 256
                       ELSE v % 256
    IN  IF \/ len % 4 # 0
           \/ pads > 2
           \/ \E i \in 1..(len - pads) : txt[i] \notin B64Chars
        THEN Raise("binascii.Error")
        ELSE Return([i \in 1..n |-> byte(i)])

-----------------------------------------------------------------------------
(* Claims *)

\* C1: for every size >= 1 (the default 32 included) a key that generate_key
\* returns has exactly size bytes
C1_KeyLengthIsSize ==
    (key.tag = "ok" /\ size >= 1) => Len(key.val) = size

C1_Witness == size = KeySize /\ key.tag = "ok" /\ Len(key.val) = KeySize

\* C2: decoding the text of encode_for_storage(b) with standard base64 decoding
\* gives back exactly b, for every b of length >= 1
C2_RoundTrip ==
    (text.tag = "ok" /\ Len(key.val) >= 1) => b64decode(text.val) = Return(key.val)

C2_Witness ==
    /\ text.tag = "ok"
    /\ Len(key.val) = 2
    /\ TrailingPads(text.val) = 1
    /\ b64decode(text.val) = Return(key.val)

C4_EncodedLengthIs44 ==
    \A r \in Runs :
        /\ (encoded_key[r] # Unbound /\ Len(raw_key[r]) = 32) => Len(encoded_key[r]) = 44
        /\ Len(stdout[r]) = 2 => Len(stdout[r][2][2]) = 44

C4_Witness ==
    \E r \in Runs :
        /\ pc[r] = "exit"
        /\ Len(raw_key[r]) = 32
        /\ Len(stdout[r]) = 2
        /\ Len(stdout[r][2][2]) = 44

\* the two lines a run prints for the key k it drew
ExpectedOutput(k) == <<LengthLine(k), KeyLine(b64encode(k))>>

\* C5: a run draws its key once and never changes it; what it has printed is
\* always a prefix of <length line of that key, base64 line of that key>, the
\* length it reports is 32, and a run that has finished has printed exactly
\* these two lines
C5_TwoLinesInOrder ==
    \A r \in Runs :
        /\ Len(entropy_reads[r]) <= 1
        /\ entropy_reads[r] = <<>> => (stdout[r] = <<>> /\ raw_key[r] = Unbound)
        /\ entropy_reads[r] # <<>> =>
              /\ raw_key[r] = entropy_reads[r][1]
              /\ Len(stdout[r]) <= 2
              /\ stdout[r] = SubSeq(ExpectedOutput(entropy_reads[r][1]), 1, Len(stdout[r]))
              /\ pc[r] = "print_key" => Len(stdout[r]) = 1
              /\ pc[r] = "exit" => Len(stdout[r]) = 2
              /\ Len(stdout[r]) >= 1 => stdout[r][1][2] = KeySize

C5_Witness ==
    \E r \in Runs :
        /\ pc[r] = "exit"
        /\ stdout[r] = ExpectedOutput(raw_key[r])
        /\ stdout[r][1][2] = KeySize

\* C6: a run whose read of the OS entropy source failed has stopped with that
\* error, holds no key, has read nothing from any source and has printed nothing
C6_EntropyFailureNoResult ==
    \A r \in Runs :
        /\ pc[r] = "raised" <=> exc[r] # "none"
        /\ exc[r] # "none" =>
              /\ exc[r] = "OSError"
              /\ raw_key[r] = Unbound
              /\ encoded_key[r] = Unbound
              /\ entropy_reads[r] = <<>>
              /\ stdout[r] = <<>>
        /\ (raw_key[r] # Unbound \/ stdout[r] # <<>>) => exc[r] = "none"

C6_Witness ==
    \E r \in Runs : exc[r] = "OSError" /\ pc[r] = "raised" /\ stdout[r] = <<>>

\* C7: whenever a run holds a key, the whole key is the byte string that the OS
\* entropy source delivered to that run, and the text it prints encodes that string
C7_KeyFromOsSource ==
    \A r \in Runs :
        /\ raw_key[r] # Unbound => entropy_reads[r] = <<raw_key[r]>>
        /\ Len(stdout[r]) = 2 =>
              /\ Len(entropy_reads[r]) = 1
              /\ b64decode(stdout[r][2][2]) = Return(entropy_reads[r][1])

C7_Witness ==
    \E r \in Runs :
        /\ pc[r] = "exit"
        /\ entropy_reads[r] = <<raw_key[r]>>
        /\ b64decode(stdout[r][2][2]) = Return(raw_key[r])

\* everything one run owns
RunState(r) == <<pc[r], raw_key[r], encoded_key[r], stdout[r], exc[r], entropy_reads[r]>>

\* C9: under every interleaving a step changes the state of one run only, and
\* the key a run obtains has the size it asked for and is the byte string read
\* for that run
C9_RunsIndependent ==
    [][\A r \in Runs :
          /\ RunState(r)' # RunState(r) =>
                \A q \in Runs \ {r} : RunState(q)' = RunState(q)
          /\ raw_key'[r] # raw_key[r] =>
                /\ pc[r] = "urandom"
                /\ Len(raw_key'[r]) = KeySize
                /\ entropy_reads'[r] = <<raw_key'[r]>>]_vars

C9_Witness ==
    \E r, q \in Runs :
        /\ r # q
        /\ pc[r] = "exit"
        /\ pc[q] = "print_length"
        /\ raw_key[r] # raw_key[q]
        /\ Len(raw_key[r]) = KeySize
        /\ Len(raw_key[q]) = KeySize

\* C10: for a key of n >= 1 bytes the text is standard base64: only alphabet
\* characters and '=', '=' only at the end, exactly (3 - n mod 3) mod 3 of them
C10_WellFormedBase64 ==
    (text.tag = "ok" /\ Len(key.val) >= 1) =>
        LET txt == text.val
            pads == TrailingPads(txt)
        IN  /\ \A i \in 1..Len(txt) : txt[i] \in B64Chars \cup {PadChar}
            /\ \A i \in 1..(Len(txt) - pads) : txt[i] \in B64Chars
            /\ pads = (3 - (Len(key.val) % 3)) % 3
            /\ pads <= 2

C10_Witness ==
    /\ text.tag = "ok"
    /\ Len(key.val) = KeySize
    /\ TrailingPads(text.val) = 1
    /\ \E i \in 1..Len(text.val) : text.val[i] = "+"
    /\ \E i \in 1..Len(text.val) : text.val[i] = "/"

====
